---- MODULE Spec2Model ----
(***************************************************************************)
(* LocalTailwindExtractor (src/local_tailwind_extractor.py): the          *)
(* concurrent extraction-and-deduplication pipeline.                       *)
(*                                                                         *)
(* Strings are sequences of character codes, so that sorting, joining,     *)
(* lower-casing, substring and prefix tests are computed as Python         *)
(* computes them.  A parsed document is a sequence of element nodes in     *)
(* document order; a node names its parent by index (0: top level).        *)
(***************************************************************************)
EXTENDS Integers, Sequences, FiniteSets, TLC

\* ------------------------------------------------------------ strings
s_button == <<98, 117, 116, 116, 111, 110>>                  \* "button"
s_form == <<102, 111, 114, 109>>                             \* "form"
s_header == <<104, 101, 97, 100, 101, 114>>                  \* "header"
s_nav == <<110, 97, 118>>                                    \* "nav"
s_table == <<116, 97, 98, 108, 101>>                         \* "table"
s_div == <<100, 105, 118>>                                   \* "div"
s_section == <<115, 101, 99, 116, 105, 111, 110>>            \* "section"
s_footer == <<102, 111, 111, 116, 101, 114>>                 \* "footer"
s_input == <<105, 110, 112, 117, 116>>                       \* "input"
s_select == <<115, 101, 108, 101, 99, 116>>                  \* "select"
s_textarea == <<116, 101, 120, 116, 97, 114, 101, 97>>       \* "textarea"
s_a == <<97>>                                                \* "a"
s_h1 == <<104, 49>>                                          \* "h1"
s_img == <<105, 109, 103>>                                   \* "img"
s_span == <<115, 112, 97, 110>>                              \* "span"
s_p == <<112>>                                               \* "p"
s_script == <<115, 99, 114, 105, 112, 116>>                  \* "script"
s_style == <<115, 116, 121, 108, 101>>                       \* "style"
s_card == <<99, 97, 114, 100>>                               \* "card"
s_btn == <<98, 116, 110>>                                    \* "btn"
s_navbar == <<110, 97, 118, 98, 97, 114>>                    \* "navbar"
s_menu == <<109, 101, 110, 117>>                             \* "menu"
s_container == <<99, 111, 110, 116, 97, 105, 110, 101, 114>> \* "container"
s_wrapper == <<119, 114, 97, 112, 112, 101, 114>>            \* "wrapper"
s_grid == <<103, 114, 105, 100>>                             \* "grid"
s_row == <<114, 111, 119>>                                   \* "row"
s_flex == <<102, 108, 101, 120>>                             \* "flex"
s_bg_ == <<98, 103, 45>>                                     \* "bg-"
s_text_ == <<116, 101, 120, 116, 45>>                        \* "text-"
s_p_ == <<112, 45>>                                          \* "p-"
s_m_ == <<109, 45>>                                          \* "m-"
s_rounded == <<114, 111, 117, 110, 100, 101, 100>>           \* "rounded"
s_shadow == <<115, 104, 97, 100, 111, 119>>                  \* "shadow"
s_border == <<98, 111, 114, 100, 101, 114>>                  \* "border"
s_hoverC == <<104, 111, 118, 101, 114, 58>>                  \* "hover:"
s_focusC == <<102, 111, 99, 117, 115, 58>>                   \* "focus:"
s_bg_blue_500 == <<98, 103, 45, 98, 108, 117, 101, 45, 53, 48, 48>> \* "bg-blue-500"
s_p_4 == <<112, 45, 52>>                                     \* "p-4"
s_Card == <<67, 97, 114, 100>>                               \* "Card"
s_x == <<120>>                                               \* "x"
s_colon == <<58>>                                            \* ":"
s_comma == <<44>>                                            \* ","
s_space == <<32>>                                            \* " "

\* str.lower() on one ASCII character
lower_char(c) == IF c >= 65 /\ c <= 90 THEN c + 32 ELSE c

\* str.lower()
str_lower(s) == [k \in 1..Len(s) |-> lower_char(s[k])]

\* sub in s (Python substring test)
str_contains(sub, s) ==
    \E k \in 0..(Len(s) - Len(sub)) : SubSeq(s, k + 1, k + Len(sub)) = sub

\* sep.join(parts)
RECURSIVE str_join(_, _)
str_join(sep, parts) ==
    IF parts = <<>> THEN <<>>
    ELSE IF Len(parts) = 1 THEN parts[1]
    ELSE parts[1] \o sep \o str_join(sep, Tail(parts))

\* a < b on Python strings (lexicographic by code point)
RECURSIVE str_less(_, _)
str_less(a, b) ==
    IF b = <<>> THEN FALSE
    ELSE IF a = <<>> THEN TRUE
    ELSE IF a[1] < b[1] THEN TRUE
    ELSE IF a[1] > b[1] THEN FALSE
    ELSE str_less(Tail(a), Tail(b))

RECURSIVE sorted_insert(_, _)
sorted_insert(x, s) ==
    IF s = <<>> THEN <<x>>
    ELSE IF str_less(x, s[1]) THEN <<x>> \o s
    ELSE <<s[1]>> \o sorted_insert(x, Tail(s))

\* sorted, had it left the list in the order of the attribute
sorted_as_written(s) == s

\* sorted(list of strings): the list is kept with its repetitions
RECURSIVE sorted(_)
sorted(s) == IF s = <<>> THEN <<>> ELSE sorted_insert(Head(s), sorted(Tail(s)))

\* ------------------------------------------------------------ parsed trees
\* element.find_all(recursive=False): the direct children, in document order
Children(d, i) == SelectSeq([k \in 1..Len(d) |-> k], LAMBDA j : d[j].parent = i)

RECURSIVE IsAncestor(_, _, _)
IsAncestor(d, i, j) ==
    /\ d[j].parent # 0
    /\ \/ d[j].parent = i
       \/ IsAncestor(d, i, d[j].parent)

\* the elements element.find(...) / element.find_all(...) search: the descendants
Descendants(d, i) == {j \in 1..Len(d) : IsAncestor(d, i, j)}

\* element.find(name) is not None
find(d, i, names) == \E j \in Descendants(d, i) : d[j].tag \in names

\* bs4's Tag.__eq__, which "tag in significant_elements" uses: same name, same
\* attributes and same contents, recursively
RECURSIVE TagEq(_, _, _)
TagEq(d, i, j) ==
    \/ i = j
    \/ /\ d[i].tag = d[j].tag
       /\ d[i].class = d[j].class
       /\ d[i].attrs = d[j].attrs
       /\ d[i].text = d[j].text
       /\ LET ci == Children(d, i)
              cj == Children(d, j)
          IN  /\ Len(ci) = Len(cj)
              /\ \A k \in 1..Len(ci) : TagEq(d, ci[k], cj[k])

\* ------------------------------------------------------------ hash_element
\* "return None": no digest
None == [md5 |-> <<>>]

ContainerTags == {s_div, s_section, s_form, s_nav, s_header, s_footer, s_table}

\* hashlib.md5(...).hexdigest(): collision-free on the strings of the model,
\* so the digest is the record of the string it was computed from
md5(s) == [md5 |-> s]

\* the string hash_element digests
structure(d, i) ==
    LET element_type == d[i].tag
        class_str == str_join(s_space, sorted(d[i].class))
        children == [k \in 1..Len(Children(d, i)) |-> d[Children(d, i)[k]].tag]
        head == element_type \o s_colon \o class_str
    IN  IF element_type \in ContainerTags
        THEN head \o s_colon \o str_join(s_comma, sorted(children))
        ELSE head

\* hash_element, had it digested the element's text and attribute names too
hash_element_with_content(d, i) ==
    md5(structure(d, i) \o s_colon \o <<d[i].text, Cardinality(d[i].attrs)>>)

hash_element(d, i) ==
    IF d[i].tag = <<>> THEN None ELSE md5(structure(d, i))

\* ------------------------------------------------------------ classify_element
Categories == {"buttons", "forms", "headers", "navbars", "tables", "cards",
               "containers", "grids", "inputs", "footers", "sections", "links",
               "other"}

\* ' '.join(classes).lower()
class_text_of(d, i) == str_lower(str_join(s_space, d[i].class))

\* classify_element, had the nav rule come before the header rule
classify_element_nav_first(d, i) ==
    LET element_type == d[i].tag
        class_text == class_text_of(d, i)
        has(w) == str_contains(w, class_text)
    IN  IF element_type = s_button \/ has(s_btn) \/ has(s_button) THEN "buttons"
        ELSE IF element_type = s_form \/ find(d, i, {s_form}) THEN "forms"
        ELSE IF element_type = s_nav \/ has(s_nav) \/ has(s_navbar) \/ has(s_menu)
             THEN "navbars"
        ELSE IF element_type = s_header \/ has(s_header) \/ find(d, i, {s_h1})
             THEN "headers"
        ELSE "other"

classify_element(d, i) ==
    LET element_type == d[i].tag
        class_text == class_text_of(d, i)
        has(w) == str_contains(w, class_text)
    IN  IF element_type = s_button \/ has(s_btn) \/ has(s_button) THEN "buttons"
        ELSE IF element_type = s_form \/ find(d, i, {s_form}) THEN "forms"
        ELSE IF element_type = s_header \/ has(s_header) \/ find(d, i, {s_h1})
             THEN "headers"
        ELSE IF element_type = s_nav \/ has(s_nav) \/ has(s_navbar) \/ has(s_menu)
             THEN "navbars"
        ELSE IF element_type = s_table \/ find(d, i, {s_table}) THEN "tables"
        ELSE IF \/ has(s_card)
                \/ /\ element_type = s_div
                   /\ find(d, i, {s_img})
                   /\ Cardinality({j \in Descendants(d, i) : d[j].tag = s_div}) > 1
             THEN "cards"
        ELSE IF has(s_container) \/ has(s_wrapper) THEN "containers"
        ELSE IF has(s_grid) \/ has(s_row) \/ has(s_flex) THEN "grids"
        ELSE IF \/ element_type \in {s_input, s_select, s_textarea}
                \/ find(d, i, {s_input, s_select, s_textarea})
             THEN "inputs"
        ELSE IF element_type = s_footer \/ has(s_footer) THEN "footers"
        ELSE IF element_type = s_section \/ has(s_section) THEN "sections"
        ELSE IF element_type = s_a \/ find(d, i, {s_a}) THEN "links"
        ELSE "other"

\* ------------------------------------------------------------ clean_element
attrs_to_keep == {"class", "id", "type", "placeholder", "href", "src", "alt"}

TextLimit == 100

\* the text of one node of the cleaned copy: the contents of script and style
\* are emptied, a longer text is cut to TextLimit characters plus "..."
clean_text(node) ==
    IF node.tag \in {s_script, s_style} THEN 0
    ELSE IF node.text > TextLimit THEN TextLimit + 3
    ELSE node.text

\* the cleaned copy of the element: the element and its descendants, re-parsed,
\* with the unwanted attributes dropped and the texts shortened
clean_element(d, i) ==
    LET keep == SelectSeq([k \in 1..Len(d) |-> k],
                          LAMBDA j : j = i \/ IsAncestor(d, i, j))
        pos(j) == CHOOSE k \in 1..Len(keep) : keep[k] = j
    IN  [k \in 1..Len(keep) |->
            [tag    |-> d[keep[k]].tag,
             parent |-> IF keep[k] = i THEN 0 ELSE pos(d[keep[k]].parent),
             class  |-> d[keep[k]].class,
             attrs  |-> d[keep[k]].attrs \cap attrs_to_keep,
             text   |-> clean_text(d[keep[k]])]]

\* ------------------------------------------------------------ candidate selection
TailwindPrefixes == {s_bg_, s_text_, s_p_, s_m_, s_flex, s_grid, s_rounded,
                     s_shadow, s_border, s_hoverC, s_focusC}

\* re.search(r'(^|\s)(bg-|text-|...|focus:)', class_str)
tailwind_search(class_str) ==
    \E k \in 1..Len(class_str) :
        /\ k = 1 \/ class_str[k - 1] = 32
        /\ \E pre \in TailwindPrefixes :
              /\ k + Len(pre) - 1 <= Len(class_str)
              /\ SubSeq(class_str, k, k + Len(pre) - 1) = pre

\* pass1, had it skipped an element equal to one selected before
pass1_skipping_equal(d) ==
    SelectSeq([k \in 1..Len(d) |-> k],
              LAMBDA j : /\ d[j].class # <<>>
                         /\ tailwind_search(str_join(s_space, d[j].class))
                         /\ \A i \in 1..(j - 1) : d[i] # d[j])

\* first loop: the elements that carry a class attribute with a Tailwind-like class
pass1(d) ==
    SelectSeq([k \in 1..Len(d) |-> k],
              LAMBDA j : /\ d[j].class # <<>>
                         /\ tailwind_search(str_join(s_space, d[j].class)))

component_types == <<s_button, s_card, s_nav, s_header, s_footer, s_form>>

\* "tag in significant_elements"
already_added(d, j, significant_elements) ==
    \E k \in 1..Len(significant_elements) : TagEq(d, significant_elements[k], j)

\* pass2_tags, had an element named as the component type been selected whatever
\* its class
RECURSIVE pass2_tags_by_name(_, _, _, _)
pass2_tags_by_name(d, component_type, j, significant_elements) ==
    IF j > Len(d) THEN significant_elements
    ELSE IF d[j].tag \notin {component_type, s_div, s_section}
         THEN pass2_tags_by_name(d, component_type, j + 1, significant_elements)
    ELSE IF already_added(d, j, significant_elements)
         THEN pass2_tags_by_name(d, component_type, j + 1, significant_elements)
    ELSE IF d[j].tag = component_type
            \/ str_contains(component_type, class_text_of(d, j))
         THEN pass2_tags_by_name(d, component_type, j + 1,
                                 Append(significant_elements, j))
    ELSE pass2_tags_by_name(d, component_type, j + 1, significant_elements)

\* the inner loop of the second pass, for one component_type, from node j on
RECURSIVE pass2_tags(_, _, _, _)
pass2_tags(d, component_type, j, significant_elements) ==
    IF j > Len(d) THEN significant_elements
    ELSE IF d[j].tag \notin {component_type, s_div, s_section}
         THEN pass2_tags(d, component_type, j + 1, significant_elements)
    ELSE IF already_added(d, j, significant_elements)
         THEN pass2_tags(d, component_type, j + 1, significant_elements)
    ELSE IF str_contains(component_type, class_text_of(d, j))
         THEN pass2_tags(d, component_type, j + 1, Append(significant_elements, j))
    ELSE pass2_tags(d, component_type, j + 1, significant_elements)

\* the second loop, from the c-th component_type on
RECURSIVE pass2(_, _, _)
pass2(d, c, significant_elements) ==
    IF c > Len(component_types) THEN significant_elements
    ELSE pass2(d, c + 1, pass2_tags(d, component_types[c], 1, significant_elements))

\* significant_elements as the two loops leave it; total_found is its length
significant(d) == pass2(d, 1, pass1(d))

\* ------------------------------------------------------------ the project tree
\* Bounds of the model
MaxFiles == 2
MaxThreads == 2

SizeLimit == 5242880     \* 5 * 1024 * 1024

\* a node of a parsed document
Node(tag, parent, class, attrs, text) ==
    [tag |-> tag, parent |-> parent, class |-> class, attrs |-> attrs, text |-> text]

doc_buttons == <<Node(s_button, 0, <<s_btn, s_bg_blue_500>>, {}, 2),
                 Node(s_button, 0, <<s_btn, s_bg_blue_500>>, {}, 2)>>
doc_link    == <<Node(s_span, 0, <<s_x, s_p_4>>, {}, 0),
                 Node(s_a, 1, <<>>, {"href"}, 4)>>
doc_plain   == <<Node(s_span, 0, <<s_p_4, s_x>>, {"id", "onclick"}, 120)>>
doc_cards   == <<Node(s_div, 0, <<s_card, s_card>>, {}, 0),
                 Node(s_div, 0, <<s_card>>, {}, 0)>>
doc_card    == <<Node(s_div, 0, <<s_card, s_p_4>>, {}, 0),
                 Node(s_img, 1, <<>>, {"src"}, 0),
                 Node(s_div, 1, <<>>, {}, 0)>>
doc_text    == <<Node(s_p, 0, <<>>, {}, 7)>>

\* a file of the tree: its name's extension, whether the name starts with ".",
\* its size (stat_ok: os.path.getsize succeeds), whether it can be read, the
\* markup outside its PHP blocks (html), the markup of its echo literals (echo),
\* and what running it with PHP gives (run, out)
File(ext, hidden, size, stat_ok, html, echo, run, out) ==
    [ext |-> ext, hidden |-> hidden, size |-> size, stat_ok |-> stat_ok,
     html |-> html, echo |-> echo, run |-> run, out |-> out]

FileCatalogue ==
    <<File("html", FALSE, 80, TRUE, doc_buttons, <<>>, "none", <<>>),
      File("html", FALSE, 60, TRUE, doc_link, <<>>, "none", <<>>),
      File("html", FALSE, 150, TRUE, doc_plain, <<>>, "none", <<>>),
      File("html", FALSE, 70, TRUE, doc_cards, <<>>, "none", <<>>),
      File("php", FALSE, 90, TRUE, <<>>, doc_card, "ok", doc_card),
      File("php", FALSE, 40, TRUE, doc_plain, <<>>, "nonzero", <<>>),
      File("html", FALSE, SizeLimit + 1, TRUE, doc_buttons, <<>>, "none", <<>>),
      File("other", FALSE, 10, TRUE, doc_text, <<>>, "none", <<>>),
      File("html", FALSE, SizeLimit, TRUE, doc_text, <<>>, "none", <<>>),
      File("php", TRUE, 30, TRUE, doc_plain, <<>>, "ok", doc_plain),
      File("html", FALSE, 20, FALSE, doc_buttons, <<>>, "none", <<>>),
      File("php", FALSE, 25, TRUE, <<>>, <<>>, "timeout", <<>>),
      File("php", FALSE, 35, TRUE, <<>>, <<>>, "missing", <<>>)>>

\* the trees: the files os.walk visits, in the order it visits them
RECURSIVE SeqsUpTo(_, _)
SeqsUpTo(S, n) ==
    IF n = 0 THEN {<<>>}
    ELSE LET shorter == SeqsUpTo(S, n - 1)
         IN  shorter \cup {Append(t, x) : t \in shorter, x \in S}

Trees == SeqsUpTo(1..Len(FileCatalogue), MaxFiles)

\* ------------------------------------------------------------ state
VARIABLES
    tree,            \* the files under project_dir, in os.walk order (catalogue numbers)
    max_threads,     \* self.max_threads
    execute_php,     \* self.execute_php
    temp_dir,        \* self.temp_dir: "None", or the directory "exists" / is "removed"
    element_hashes,  \* self.element_hashes
    element_groups,  \* self.element_groups: <<[category, elements]>> in key order
    stats,           \* self.stats
    stats_lock,      \* the thread holding self.stats_lock (0: nobody)
    hash_lock,       \* the thread holding self.hash_lock
    print_lock,      \* the thread holding self.print_lock
    pc,              \* where extract() is
    php_files,       \* find_php_files' first list (positions in tree)
    html_files,      \* find_php_files' second list
    futures,         \* the units submitted to the executor, in submission order
    workers,         \* the pool's threads
    report,          \* what save_unique_elements wrote
    summary,         \* the counters extract() printed
    cleanups,        \* how many times cleanup() ran
    raised,          \* how many exceptions the environment has raised in the run
    probe            \* the argument and result of a function applied on its own

vars == <<tree, max_threads, execute_php, temp_dir, element_hashes, element_groups,
          stats, stats_lock, hash_lock, print_lock, pc, php_files, html_files,
          futures, workers, report, summary, cleanups, raised, probe>>

config == <<tree, max_threads, execute_php>>
shared == <<element_hashes, element_groups, stats>>
locks  == <<stats_lock, hash_lock, print_lock>>
main   == <<pc, php_files, html_files, report, summary, cleanups, temp_dir>>
env    == <<raised, probe>>

Threads == 1..max_threads

\* a thread of the pool that runs no unit
IdleWorker ==
    [pc |-> "idle", unit |-> 0, mode |-> "none", significant_elements |-> <<>>,
     k |-> 0, counter |-> "none", amount |-> 0, read |-> 0, after |-> "none",
     elements_from_static |-> 0, prints |-> 0]

ZeroStats ==
    [files_scanned |-> 0, php_files_found |-> 0, php_files_executed |-> 0,
     html_files_found |-> 0, elements_found |-> 0, unique_elements |-> 0,
     duplicate_elements |-> 0, execution_errors |-> 0]

NoReport == [written |-> FALSE, stats |-> ZeroStats, groups |-> <<>>]

NoSummary == [printed |-> FALSE, stats |-> ZeroStats]

NoProbe == [fn |-> "none"]

\* __init__: PHP execution is switched off when the version probe fails; the
\* temporary directory is made before the probe, whenever execution is asked for
Construct(files, threads, execute_php_arg, php_found) ==
    /\ tree = files
    /\ max_threads = threads
    /\ execute_php = (execute_php_arg /\ php_found)
    /\ temp_dir = IF execute_php_arg THEN "exists" ELSE "None"
    /\ element_hashes = {}
    /\ element_groups = <<>>
    /\ stats = ZeroStats
    /\ stats_lock = 0
    /\ hash_lock = 0
    /\ print_lock = 0
    /\ pc = "start"
    /\ php_files = <<>>
    /\ html_files = <<>>
    /\ futures = <<>>
    /\ workers = [w \in 1..threads |-> IdleWorker]
    /\ report = NoReport
    /\ summary = NoSummary
    /\ cleanups = 0

Init ==
    /\ \E files \in Trees, threads \in 1..MaxThreads,
          execute_php_arg \in BOOLEAN, php_found \in BOOLEAN :
          Construct(files, threads, execute_php_arg, php_found)
    /\ raised = 0
    /\ probe = NoProbe

\* ------------------------------------------------------------ find_php_files
\* Visited, had the walk also skipped a file of exactly the limit
Visited_below_limit(p) ==
    LET f == FileCatalogue[tree[p]]
    IN  f.stat_ok /\ ~(f.size >= SizeLimit \/ f.hidden)

\* whether the walk keeps the file at position p (neither hidden nor too big,
\* and its size could be read)
Visited(p) ==
    LET f == FileCatalogue[tree[p]]
    IN  f.stat_ok /\ ~(f.size > SizeLimit \/ f.hidden)

FindFiles ==
    /\ pc = "start"
    /\ stats_lock = 0
    /\ LET positions == [p \in 1..Len(tree) |-> p]
           visited == SelectSeq(positions, Visited)
           php == SelectSeq(visited, LAMBDA p : FileCatalogue[tree[p]].ext = "php")
           html == SelectSeq(visited, LAMBDA p : FileCatalogue[tree[p]].ext = "html")
       IN  /\ php_files' = php
           /\ html_files' = html
           /\ stats' = [stats EXCEPT !.files_scanned = @ + Len(visited),
                                     !.php_files_found = @ + Len(php),
                                     !.html_files_found = @ + Len(html)]
    /\ pc' = "submit"
    /\ UNCHANGED <<config, temp_dir, element_hashes, element_groups, locks,
                   futures, workers, report, summary, cleanups, env>>

\* ------------------------------------------------------------ extract: the pool
\* executor.submit(self.process_file, file): PHP files first, then HTML files
Submit ==
    /\ pc = "submit"
    /\ Len(futures) < Len(php_files) + Len(html_files)
    /\ futures' = Append(futures,
                         [file |-> (php_files \o html_files)[Len(futures) + 1],
                          state |-> "pending"])
    /\ UNCHANGED <<config, shared, locks, main, workers, env>>

\* every file is submitted: the loop over future.result() starts
Submitted ==
    /\ pc = "submit"
    /\ Len(futures) = Len(php_files) + Len(html_files)
    /\ pc' = "wait"
    /\ UNCHANGED <<config, shared, locks, php_files, html_files, report, summary,
                   cleanups, temp_dir, futures, workers, env>>

\* Join, had extract() gone on without waiting for the futures
Join_without_waiting ==
    /\ pc = "wait"
    /\ pc' = "save"
    /\ UNCHANGED <<config, shared, locks, php_files, html_files, report, summary,
                   cleanups, temp_dir, futures, workers, env>>

\* future.result() returned for every future and the executor has shut down
Join ==
    /\ pc = "wait"
    /\ \A u \in 1..Len(futures) : futures[u].state = "done"
    /\ pc' = "save"
    /\ UNCHANGED <<config, shared, locks, php_files, html_files, report, summary,
                   cleanups, temp_dir, futures, workers, env>>

\* ------------------------------------------------------------ process_file
\* the markup static analysis gives for a PHP file: the text outside the PHP
\* blocks, a space, and the echo literals
DocConcat(a, b) ==
    a \o [k \in 1..Len(b) |->
            [b[k] EXCEPT !.parent = IF @ = 0 THEN 0 ELSE @ + Len(a)]]

extract_html_from_php_static(f) == DocConcat(f.html, f.echo)

FileOf(l) == FileCatalogue[tree[futures[l.unit].file]]

\* the markup process_file hands to extract_elements_from_html for a file, parsed:
\* from static analysis, from execution, or as read from an HTML file
fragments(f) ==
    [static |-> extract_html_from_php_static(f), execution |-> f.out, html |-> f.html]

parsed == [c \in 1..Len(FileCatalogue) |-> fragments(FileCatalogue[c])]

\* the document the thread is scanning
DocOf(l) == parsed[tree[futures[l.unit].file]][l.mode]

\* the print blocks that end process_file: "Found ... elements ..." once for
\* each count above zero; with none left the unit returns
start_prints(l, n) ==
    IF n = 0 THEN [l EXCEPT !.pc = "return"]
    ELSE [l EXCEPT !.pc = "print_acquire", !.prints = n, !.after = "prints"]

\* after_extract, had process_file run the PHP file whatever self.execute_php is
after_extract_always_executes(l, total_found) ==
    IF l.mode = "static"
    THEN [l EXCEPT !.pc = "execute", !.elements_from_static = total_found,
                   !.significant_elements = <<>>, !.k = 0]
    ELSE start_prints([l EXCEPT !.significant_elements = <<>>, !.k = 0],
                      IF total_found > 0 THEN 1 ELSE 0)

\* process_file after extract_elements_from_html returned total_found
after_extract(l, total_found) ==
    IF l.mode = "static"
    THEN IF execute_php
         THEN [l EXCEPT !.pc = "execute", !.elements_from_static = total_found,
                        !.significant_elements = <<>>, !.k = 0]
         ELSE start_prints([l EXCEPT !.significant_elements = <<>>, !.k = 0],
                           IF total_found > 0 THEN 1 ELSE 0)
    ELSE IF l.mode = "execution"
    THEN start_prints([l EXCEPT !.significant_elements = <<>>, !.k = 0],
                      (IF total_found > 0 THEN 1 ELSE 0)
                      + (IF l.elements_from_static > 0 THEN 1 ELSE 0))
    ELSE start_prints([l EXCEPT !.significant_elements = <<>>, !.k = 0],
                      IF total_found > 0 THEN 1 ELSE 0)

\* the thread adds amount to a counter under stats_lock and goes on at `after`
count(l, counter, amount, after) ==
    [l EXCEPT !.pc = "stats_acquire", !.counter = counter, !.amount = amount,
              !.after = after]

\* the fragments the files of the catalogue give, and the candidates the two
\* loops select in each of them
Fragments ==
    UNION {{parsed[c].static, parsed[c].execution, parsed[c].html} :
           c \in 1..Len(FileCatalogue)}

selected == [d \in Fragments |-> significant(d)]

\* what hash_element, classify_element and clean_element give for each element
\* of each fragment
hashes == [d \in Fragments |-> [i \in 1..Len(d) |-> hash_element(d, i)]]

categories == [d \in Fragments |-> [i \in 1..Len(d) |-> classify_element(d, i)]]

cleaned == [d \in Fragments |-> [i \in 1..Len(d) |-> clean_element(d, i)]]

\* extract_elements_from_html up to its first use of shared state: empty content
\* returns 0 at once; otherwise the content is parsed and the candidates are
\* selected, and the loop over them starts
enter_extract(l, mode, d) ==
    LET m == [l EXCEPT !.mode = mode]
    IN  IF d = <<>> THEN after_extract(m, 0)
        ELSE IF selected[d] = <<>>
             THEN count(m, "elements_found", 0, "extracted")
        ELSE [m EXCEPT !.pc = "loop", !.significant_elements = selected[d],
                       !.k = 1]

\* where the thread goes on after a counter was written or a print block ended
continue(l) ==
    IF l.after = "hash_release" THEN [l EXCEPT !.pc = "hash_release"]
    ELSE IF l.after = "extracted" THEN after_extract(l, l.amount)
    ELSE IF l.after = "executed" THEN enter_extract(l, "execution", FileOf(l).out)
    ELSE IF l.after = "execution_error"
         THEN [l EXCEPT !.pc = "print_acquire", !.after = "no_output"]
    ELSE IF l.after = "no_output" THEN enter_extract(l, "execution", <<>>)
    ELSE IF l.after = "failed" THEN after_extract(l, 0)
    ELSE IF l.after = "prints"
         THEN IF l.prints > 1
              THEN [l EXCEPT !.pc = "print_acquire", !.prints = @ - 1]
              ELSE [l EXCEPT !.pc = "return"]
    ELSE [l EXCEPT !.pc = "return"]

\* thread w goes on as l; a unit that returned is done and the thread is idle
Commit(w, l) ==
    IF l.pc = "return"
    THEN /\ workers' = [workers EXCEPT ![w] = IdleWorker]
         /\ futures' = [futures EXCEPT ![l.unit].state = "done"]
    ELSE /\ workers' = [workers EXCEPT ![w] = l]
         /\ UNCHANGED futures

\* Take, had the queue handed out the newest pending unit
Take_newest(w) ==
    /\ workers[w].pc = "idle"
    /\ \E u \in 1..Len(futures) :
          /\ futures[u].state = "pending"
          /\ \A v \in (u + 1)..Len(futures) : futures[v].state # "pending"
          /\ LET f == FileCatalogue[tree[futures[u].file]]
                 l == [IdleWorker EXCEPT !.unit = u]
                 next == IF f.ext = "php"
                         THEN enter_extract(l, "static", extract_html_from_php_static(f))
                         ELSE enter_extract(l, "html", f.html)
             IN  IF next.pc = "return"
                 THEN /\ futures' = [futures EXCEPT ![u].state = "done"]
                      /\ UNCHANGED workers
                 ELSE /\ futures' = [futures EXCEPT ![u].state = "running"]
                      /\ workers' = [workers EXCEPT ![w] = next]
    /\ UNCHANGED <<config, shared, locks, main, env>>

\* an idle thread takes the oldest pending unit and runs process_file up to its
\* first use of shared state
Take(w) ==
    /\ workers[w].pc = "idle"
    /\ \E u \in 1..Len(futures) :
          /\ futures[u].state = "pending"
          /\ \A v \in 1..(u - 1) : futures[v].state # "pending"
          /\ LET f == FileCatalogue[tree[futures[u].file]]
                 l == [IdleWorker EXCEPT !.unit = u]
                 next == IF f.ext = "php"
                         THEN enter_extract(l, "static", extract_html_from_php_static(f))
                         ELSE enter_extract(l, "html", f.html)
             IN  IF next.pc = "return"
                 THEN /\ futures' = [futures EXCEPT ![u].state = "done"]
                      /\ UNCHANGED workers
                 ELSE /\ futures' = [futures EXCEPT ![u].state = "running"]
                      /\ workers' = [workers EXCEPT ![w] = next]
    /\ UNCHANGED <<config, shared, locks, main, env>>

\* ------------------------------------------------------------ the loop over the candidates
\* HashLockEnter, had the membership test been made without the lock
HashLockEnter_unlocked(w) ==
    LET l == workers[w]
        element_hash == hashes[DocOf(l)][l.significant_elements[l.k]]
    IN  /\ l.pc = "loop"
        /\ hash_lock' = w
        /\ workers' = [workers EXCEPT ![w] =
              IF element_hash \notin element_hashes
              THEN [l EXCEPT !.pc = "insert"]
              ELSE count(l, "duplicate_elements", 1, "hash_release")]
        /\ UNCHANGED <<config, shared, stats_lock, print_lock, main, futures, env>>

\* HashLockEnter, had the execution fragment been tested against an index of
\* its own instead of the shared one
HashLockEnter_index_per_mode(w) ==
    LET l == workers[w]
        element_hash == hashes[DocOf(l)][l.significant_elements[l.k]]
        before == {hashes[DocOf(l)][l.significant_elements[j]] : j \in 1..(l.k - 1)}
    IN  /\ l.pc = "loop"
        /\ hash_lock = 0
        /\ hash_lock' = w
        /\ workers' = [workers EXCEPT ![w] =
              IF IF l.mode = "execution" THEN element_hash \notin before
                 ELSE element_hash \notin element_hashes
              THEN [l EXCEPT !.pc = "insert"]
              ELSE count(l, "duplicate_elements", 1, "hash_release")]
        /\ UNCHANGED <<config, shared, stats_lock, print_lock, main, futures, env>>

\* "with self.hash_lock:" is entered and the membership test is made
HashLockEnter(w) ==
    LET l == workers[w]
        element_hash == hashes[DocOf(l)][l.significant_elements[l.k]]
    IN  /\ l.pc = "loop"
        /\ hash_lock = 0
        /\ hash_lock' = w
        /\ workers' = [workers EXCEPT ![w] =
              IF element_hash \notin element_hashes
              THEN [l EXCEPT !.pc = "insert"]
              ELSE count(l, "duplicate_elements", 1, "hash_release")]
        /\ UNCHANGED <<config, shared, stats_lock, print_lock, main, futures, env>>

\* groups_append, had a new key come before the keys there are and a new element
\* before the elements of its list
groups_prepend(groups, category, entry) ==
    IF \E g \in 1..Len(groups) : groups[g].category = category
    THEN [g \in 1..Len(groups) |->
            IF groups[g].category = category
            THEN [groups[g] EXCEPT !.elements = <<entry>> \o @]
            ELSE groups[g]]
    ELSE <<[category |-> category, elements |-> <<entry>>]>> \o groups

\* element_groups with one more element in a category; a new category is a new
\* key, after the keys there are
groups_append(groups, category, entry) ==
    IF \E g \in 1..Len(groups) : groups[g].category = category
    THEN [g \in 1..Len(groups) |->
            IF groups[g].category = category
            THEN [groups[g] EXCEPT !.elements = Append(@, entry)]
            ELSE groups[g]]
    ELSE Append(groups, [category |-> category, elements |-> <<entry>>])

\* Insert, had the hash not been added to element_hashes
Insert_hash_not_added(w) ==
    LET l == workers[w]
        d == DocOf(l)
        i == l.significant_elements[l.k]
        entry == [element |-> cleaned[d][i],
                  source_file |-> futures[l.unit].file,
                  origin |-> <<l.unit, l.mode, i>>]
    IN  /\ l.pc = "insert"
        /\ element_groups' = groups_append(element_groups, categories[d][i], entry)
        /\ workers' = [workers EXCEPT ![w] = count(l, "unique_elements", 1, "hash_release")]
        /\ UNCHANGED <<config, element_hashes, stats, locks, main, futures, env>>

\* the unique element: its hash is added, it is cleaned, classified and stored
Insert(w) ==
    LET l == workers[w]
        d == DocOf(l)
        i == l.significant_elements[l.k]
        entry == [element |-> cleaned[d][i],
                  source_file |-> futures[l.unit].file,
                  origin |-> <<l.unit, l.mode, i>>]
    IN  /\ l.pc = "insert"
        /\ element_hashes' = element_hashes \cup {hashes[d][i]}
        /\ element_groups' = groups_append(element_groups, categories[d][i], entry)
        /\ workers' = [workers EXCEPT ![w] = count(l, "unique_elements", 1, "hash_release")]
        /\ UNCHANGED <<config, stats, locks, main, futures, env>>

\* "with self.hash_lock:" is left; the loop goes to the next candidate, and
\* after the last one total_found is added to elements_found
HashLockExit(w) ==
    LET l == workers[w]
    IN  /\ l.pc = "hash_release"
        /\ hash_lock' = 0
        /\ workers' = [workers EXCEPT ![w] =
              IF l.k < Len(l.significant_elements)
              THEN [l EXCEPT !.pc = "loop", !.k = @ + 1, !.counter = "none",
                             !.amount = 0, !.after = "none"]
              ELSE count(l, "elements_found", Len(l.significant_elements), "extracted")]
        /\ UNCHANGED <<config, shared, stats_lock, print_lock, main, futures, env>>

\* ------------------------------------------------------------ the counters
\* StatsLockEnter, had the counter been read without taking stats_lock
StatsLockEnter_unlocked(w) ==
    LET l == workers[w]
    IN  /\ l.pc = "stats_acquire"
        /\ workers' = [workers EXCEPT ![w] =
                          [l EXCEPT !.pc = "stats_write", !.read = stats[l.counter]]]
        /\ UNCHANGED <<config, shared, locks, main, futures, env>>

\* "with self.stats_lock:" is entered and the counter is read
StatsLockEnter(w) ==
    LET l == workers[w]
    IN  /\ l.pc = "stats_acquire"
        /\ stats_lock = 0
        /\ stats_lock' = w
        /\ workers' = [workers EXCEPT ![w] =
                          [l EXCEPT !.pc = "stats_write", !.read = stats[l.counter]]]
        /\ UNCHANGED <<config, shared, hash_lock, print_lock, main, futures, env>>

\* StatsLockExit, had the counter been written only after taking hash_lock (a
\* threading.Lock, not reentrant) inside "with self.stats_lock:"
StatsLockExit_taking_hash_lock(w) ==
    LET l == workers[w]
    IN  /\ l.pc = "stats_write"
        /\ hash_lock = 0
        /\ stats' = [stats EXCEPT ![l.counter] = l.read + l.amount]
        /\ stats_lock' = 0
        /\ Commit(w, continue([l EXCEPT !.read = 0, !.counter = "none"]))
        /\ UNCHANGED <<config, element_hashes, element_groups, hash_lock,
                       print_lock, main, env>>

\* the counter is written and "with self.stats_lock:" is left
StatsLockExit(w) ==
    LET l == workers[w]
    IN  /\ l.pc = "stats_write"
        /\ stats' = [stats EXCEPT ![l.counter] = l.read + l.amount]
        /\ stats_lock' = 0
        /\ Commit(w, continue([l EXCEPT !.read = 0, !.counter = "none"]))
        /\ UNCHANGED <<config, element_hashes, element_groups, hash_lock,
                       print_lock, main, env>>

\* ------------------------------------------------------------ execute_php_file
\* Execute, had a failed execution returned without being counted
Execute_failure_uncounted(w) ==
    LET l == workers[w]
    IN  /\ l.pc = "execute"
        /\ workers' = [workers EXCEPT ![w] =
              IF FileOf(l).run = "ok"
              THEN count(l, "php_files_executed", 1, "executed")
              ELSE count(l, "execution_errors", 0, "execution_error")]
        /\ UNCHANGED <<config, shared, locks, main, futures, env>>

\* the PHP file is run: exit status 0 counts as executed; a missing file, another
\* exit status, a timeout or a failure to launch count as an execution error
Execute(w) ==
    LET l == workers[w]
    IN  /\ l.pc = "execute"
        /\ workers' = [workers EXCEPT ![w] =
              IF FileOf(l).run = "ok"
              THEN count(l, "php_files_executed", 1, "executed")
              ELSE count(l, "execution_errors", 1, "execution_error")]
        /\ UNCHANGED <<config, shared, locks, main, futures, env>>

\* ------------------------------------------------------------ printing
PrintLockEnter(w) ==
    LET l == workers[w]
    IN  /\ l.pc = "print_acquire"
        /\ print_lock = 0
        /\ print_lock' = w
        /\ workers' = [workers EXCEPT ![w] = [l EXCEPT !.pc = "print_release"]]
        /\ UNCHANGED <<config, shared, stats_lock, hash_lock, main, futures, env>>

PrintLockExit(w) ==
    LET l == workers[w]
    IN  /\ l.pc = "print_release"
        /\ print_lock' = 0
        /\ Commit(w, continue(l))
        /\ UNCHANGED <<config, shared, stats_lock, hash_lock, main, env>>

\* ------------------------------------------------------------ save_unique_elements
\* the output file is opened and the header with the counters is written
SaveHeader ==
    /\ pc = "save"
    /\ report' = [written |-> FALSE, stats |-> stats, groups |-> <<>>]
    /\ pc' = "save_groups"
    /\ UNCHANGED <<config, shared, locks, php_files, html_files, summary, cleanups,
                   temp_dir, futures, workers, env>>

\* the categories that hold elements are written in key order, each with its
\* elements in list order, and the file is closed
SaveGroups ==
    /\ pc = "save_groups"
    /\ report' = [report EXCEPT
                    !.written = TRUE,
                    !.groups = SelectSeq(element_groups,
                                         LAMBDA g : g.elements # <<>>)]
    /\ pc' = "summary"
    /\ UNCHANGED <<config, shared, locks, php_files, html_files, summary, cleanups,
                   temp_dir, futures, workers, env>>

\* extract() prints the summary from the counters
Summary ==
    /\ pc = "summary"
    /\ summary' = [printed |-> TRUE, stats |-> stats]
    /\ pc' = "finally"
    /\ UNCHANGED <<config, shared, locks, php_files, html_files, report, cleanups,
                   temp_dir, futures, workers, env>>

\* ------------------------------------------------------------ cleanup
\* Cleanup, had cleanup() removed the directory only while execution is enabled
Cleanup_when_executing ==
    /\ pc = "finally"
    /\ temp_dir' = IF temp_dir = "exists" /\ execute_php THEN "removed" ELSE temp_dir
    /\ cleanups' = cleanups + 1
    /\ pc' = "returned"
    /\ UNCHANGED <<config, shared, locks, php_files, html_files, report, summary,
                   futures, workers, env>>

\* the finally clause of extract(): the temporary directory, if there is one,
\* is removed
Cleanup ==
    /\ pc = "finally"
    /\ temp_dir' = IF temp_dir = "exists" THEN "removed" ELSE temp_dir
    /\ cleanups' = cleanups + 1
    /\ pc' = "returned"
    /\ UNCHANGED <<config, shared, locks, php_files, html_files, report, summary,
                   futures, workers, env>>

\* ------------------------------------------------------------ the run
Worker(w) ==
    \/ Take(w)
    \/ HashLockEnter(w)
    \/ Insert(w)
    \/ HashLockExit(w)
    \/ StatsLockEnter(w)
    \/ StatsLockExit(w)
    \/ Execute(w)
    \/ PrintLockEnter(w)
    \/ PrintLockExit(w)

Main ==
    \/ FindFiles
    \/ Submit
    \/ Submitted
    \/ Join
    \/ SaveHeader
    \/ SaveGroups
    \/ Summary
    \/ Cleanup

Next ==
    \/ FindFiles
    \/ Submit
    \/ Submitted
    \/ Join
    \/ SaveHeader
    \/ SaveGroups
    \/ Summary
    \/ Cleanup
    \/ \E w \in Threads : Take(w)
    \/ \E w \in Threads : HashLockEnter(w)
    \/ \E w \in Threads : Insert(w)
    \/ \E w \in Threads : HashLockExit(w)
    \/ \E w \in Threads : StatsLockEnter(w)
    \/ \E w \in Threads : StatsLockExit(w)
    \/ \E w \in Threads : Execute(w)
    \/ \E w \in Threads : PrintLockEnter(w)
    \/ \E w \in Threads : PrintLockExit(w)

Spec == Init /\ [][Next]_vars

\* the same run under a scheduler that lets every thread that can take a step
\* eventually take one: the main thread and each thread of the pool
FairSpec ==
    /\ Init
    /\ [][Next]_vars
    /\ WF_vars(Main)
    /\ \A w \in 1..MaxThreads : WF_vars(w \in Threads /\ Worker(w))

\* ------------------------------------------------------------ exceptions
\* Bound of the model: the exceptions raised in one run
MaxRaised == 1

\* the file cannot be read: extract_html_from_php_static reports it and returns
\* "", process_file reports it for an HTML file
TakeRaise(w) ==
    /\ raised < MaxRaised
    /\ workers[w].pc = "idle"
    /\ \E u \in 1..Len(futures) :
          /\ futures[u].state = "pending"
          /\ \A v \in 1..(u - 1) : futures[v].state # "pending"
          /\ futures' = [futures EXCEPT ![u].state = "running"]
          /\ workers' = [workers EXCEPT ![w] =
                [IdleWorker EXCEPT
                    !.unit = u,
                    !.mode = IF FileCatalogue[tree[futures[u].file]].ext = "php"
                             THEN "static" ELSE "html",
                    !.pc = "print_acquire",
                    !.after = "failed"]]
    /\ raised' = raised + 1
    /\ UNCHANGED <<config, shared, locks, main, probe>>

\* hash_element raises for the candidate: the except clause of
\* extract_elements_from_html reports it and returns 0
ScanRaise(w) ==
    LET l == workers[w]
    IN  /\ raised < MaxRaised
        /\ l.pc = "loop"
        /\ workers' = [workers EXCEPT ![w] =
                          [l EXCEPT !.pc = "print_acquire", !.after = "failed"]]
        /\ raised' = raised + 1
        /\ UNCHANGED <<config, shared, locks, main, futures, probe>>

\* clean_element or classify_element raises for the unique element, after its
\* hash was added: "with self.hash_lock:" is left by the exception
InsertRaise(w) ==
    LET l == workers[w]
    IN  /\ raised < MaxRaised
        /\ l.pc = "insert"
        /\ element_hashes' = element_hashes
              \cup {hashes[DocOf(l)][l.significant_elements[l.k]]}
        /\ hash_lock' = 0
        /\ workers' = [workers EXCEPT ![w] =
                          [l EXCEPT !.pc = "print_acquire", !.after = "failed"]]
        /\ raised' = raised + 1
        /\ UNCHANGED <<config, element_groups, stats, stats_lock, print_lock, main,
                       futures, probe>>

\* executor.submit raises: the with block is left, which waits for the units
\* submitted so far
SubmitRaise ==
    /\ raised < MaxRaised
    /\ pc = "submit"
    /\ Len(futures) < Len(php_files) + Len(html_files)
    /\ pc' = "shutdown"
    /\ raised' = raised + 1
    /\ UNCHANGED <<config, shared, locks, php_files, html_files, report, summary,
                   cleanups, temp_dir, futures, workers, probe>>

Shutdown ==
    /\ pc = "shutdown"
    /\ \A u \in 1..Len(futures) : futures[u].state = "done"
    /\ pc' = "finally"
    /\ UNCHANGED <<config, shared, locks, php_files, html_files, report, summary,
                   cleanups, temp_dir, futures, workers, env>>

\* SaveRaise, had the exception left extract() past the finally clause
SaveRaise_escapes ==
    /\ raised < MaxRaised
    /\ pc \in {"save", "save_groups"}
    /\ pc' = "returned"
    /\ raised' = raised + 1
    /\ UNCHANGED <<config, shared, locks, php_files, html_files, report, summary,
                   cleanups, temp_dir, futures, workers, probe>>

\* the output file cannot be opened or written: save_unique_elements reports it
\* and returns False
SaveRaise ==
    /\ raised < MaxRaised
    /\ pc \in {"save", "save_groups"}
    /\ pc' = "summary"
    /\ raised' = raised + 1
    /\ UNCHANGED <<config, shared, locks, php_files, html_files, report, summary,
                   cleanups, temp_dir, futures, workers, probe>>

\* shutil.rmtree raises: cleanup prints a warning and the directory stays
CleanupRaise ==
    /\ raised < MaxRaised
    /\ pc = "finally"
    /\ temp_dir = "exists"
    /\ cleanups' = cleanups + 1
    /\ pc' = "returned"
    /\ raised' = raised + 1
    /\ UNCHANGED <<config, shared, locks, php_files, html_files, report, summary,
                   temp_dir, futures, workers, probe>>

WorkerErr(w) ==
    \/ Worker(w)
    \/ TakeRaise(w)
    \/ ScanRaise(w)
    \/ InsertRaise(w)

MainErr ==
    \/ Main
    \/ SubmitRaise
    \/ Shutdown
    \/ SaveRaise
    \/ CleanupRaise

NextErr ==
    \/ Next
    \/ SubmitRaise
    \/ Shutdown
    \/ SaveRaise
    \/ CleanupRaise
    \/ \E w \in Threads : TakeRaise(w)
    \/ \E w \in Threads : ScanRaise(w)
    \/ \E w \in Threads : InsertRaise(w)

\* the run in which library and system calls may raise; every thread that can
\* take a step eventually takes one
ErrSpec ==
    /\ Init
    /\ [][NextErr]_vars
    /\ WF_vars(MainErr)
    /\ \A w \in 1..MaxThreads : WF_vars(w \in Threads /\ WorkerErr(w))

\* ------------------------------------------------------------ the functions on their own
\* Bounds of the model: the class tokens and the children of a probed element
MaxClasses == 2
MaxKids == 2

ProbeTags == {s_button, s_form, s_header, s_nav, s_table, s_div, s_input,
              s_footer, s_section, s_a, s_span}
ProbeTokens == {s_btn, s_header, s_navbar, s_Card, s_container, s_flex,
                s_footer, s_section, s_p_4}
ProbeKidTags == {s_form, s_h1, s_table, s_img, s_div, s_select, s_a}

\* an element with its children, the first of which may have a child of its own
ProbeDoc(tag, class, attrs, text, kids, kid_text, grandchild) ==
    LET rest == [k \in 1..(Len(kids) - 1) |-> Node(kids[k + 1], 1, <<>>, {}, 0)]
    IN  IF kids = <<>> THEN <<Node(tag, 0, class, attrs, text)>>
        ELSE <<Node(tag, 0, class, attrs, text), Node(kids[1], 1, <<>>, {}, kid_text)>>
             \o (IF grandchild = <<>> THEN <<>>
                 ELSE <<Node(grandchild, 2, <<>>, {}, 0)>>)
             \o [k \in 1..Len(rest) |->
                    [rest[k] EXCEPT !.parent = 1]]

\* the strings of a set, as a list
RECURSIVE ListOf(_)
ListOf(S) ==
    IF S = {} THEN <<>>
    ELSE LET x == CHOOSE y \in S : \A z \in S \ {y} : str_less(y, z)
         IN  <<x>> \o ListOf(S \ {x})

ListsUpTo(S, n) == {ListOf(T) : T \in {U \in SUBSET S : Cardinality(U) <= n}}

\* the elements classify_element is applied to
ClassifyProbe ==
    \E tag \in ProbeTags,
       class \in ListsUpTo(ProbeTokens, MaxClasses),
       kids \in ListsUpTo(ProbeKidTags, MaxKids),
       grandchild \in {<<>>, s_div} :
        probe = [fn |-> "classify_element", done |-> FALSE,
                 doc |-> ProbeDoc(tag, class, {}, 0, kids, 0, grandchild),
                 other |-> <<>>, index |-> {}, result |-> <<"none">>]

\* the elements hash_element is applied to: the same element twice, with its
\* text, the text of its first child and its attributes other than class chosen
\* freely in each, and the hashes seen before
HashProbe ==
    \E tag \in {s_div, s_span, s_button},
       class \in SeqsUpTo({s_btn, s_p_4}, MaxClasses),
       kids \in SeqsUpTo({s_a, s_div}, MaxKids),
       p \in {{}, {"id", "onclick"}} \X {0, 120} \X {0, 5},
       q \in {{}, {"id", "onclick"}} \X {0, 120} \X {0, 5},
       index \in {{}, {md5(s_div \o s_colon \o s_colon)},
                  {md5(s_span \o s_colon \o s_p_4), md5(s_button \o s_colon \o s_btn)}} :
        probe = [fn |-> "hash_element", done |-> FALSE,
                 doc |-> ProbeDoc(tag, class, p[1], p[2], kids, p[3], <<>>),
                 other |-> ProbeDoc(tag, class, q[1], q[2], kids, q[3], <<>>),
                 index |-> index, result |-> <<"none">>]

\* Bound of the model: the elements of a document the two loops are applied to
MaxNodes == 2

SelectTags == {s_button, s_nav, s_div, s_span}
SelectTokens == {s_Card, s_nav, s_p_4}

\* the documents candidate selection is applied to: top-level elements without
\* children, each with or without text
SelectProbe ==
    \E d \in SeqsUpTo({Node(tag, 0, class, {}, text) :
                          tag \in SelectTags,
                          class \in ListsUpTo(SelectTokens, MaxClasses),
                          text \in {0, 1}}, MaxNodes) \ {<<>>} :
        probe = [fn |-> "significant_elements", done |-> FALSE, doc |-> d,
                 other |-> <<>>, index |-> {}, result |-> <<"none">>]

PureInit ==
    /\ Construct(<<>>, 1, FALSE, FALSE)
    /\ raised = 0
    /\ ClassifyProbe \/ HashProbe \/ SelectProbe

\* classify_element(element)
ApplyClassify ==
    /\ probe.fn = "classify_element"
    /\ ~probe.done
    /\ probe' = [probe EXCEPT !.done = TRUE,
                              !.result = <<classify_element(probe.doc, 1)>>]
    /\ UNCHANGED <<config, shared, locks, main, futures, workers, raised>>

\* hash_element(element) for the two elements, and the test
\* "element_hash not in self.element_hashes" for each
ApplyHash ==
    /\ probe.fn = "hash_element"
    /\ ~probe.done
    /\ probe' = [probe EXCEPT
                    !.done = TRUE,
                    !.result = <<hash_element(probe.doc, 1),
                                 hash_element(probe.other, 1),
                                 hash_element(probe.doc, 1) \notin probe.index,
                                 hash_element(probe.other, 1) \notin probe.index>>]
    /\ UNCHANGED <<config, shared, locks, main, futures, workers, raised>>

\* the two loops of extract_elements_from_html over the parsed document
ApplySelect ==
    /\ probe.fn = "significant_elements"
    /\ ~probe.done
    /\ probe' = [probe EXCEPT !.done = TRUE, !.result = <<significant(probe.doc)>>]
    /\ UNCHANGED <<config, shared, locks, main, futures, workers, raised>>

PureNext ==
    \/ ApplyClassify
    \/ ApplyHash
    \/ ApplySelect

PureSpec == PureInit /\ [][PureNext]_vars

\* ------------------------------------------------------------ what the claims speak of
\* the document of a unit's fragment
FragmentDoc(unit, mode) ==
    LET f == FileCatalogue[tree[futures[unit].file]]
    IN  IF mode = "static" THEN extract_html_from_php_static(f)
        ELSE IF mode = "execution" THEN f.out
        ELSE f.html

\* the accepted elements: the places <<g, n>> of the category lists
Accepted ==
    UNION {{<<g, n>> : n \in 1..Len(element_groups[g].elements)} :
             g \in 1..Len(element_groups)}

EntryAt(a) == element_groups[a[1]].elements[a[2]]

\* the fingerprint of the candidate an accepted element was made from
FingerprintOf(entry) ==
    hash_element(FragmentDoc(entry.origin[1], entry.origin[2]), entry.origin[3])

\* the candidate thread w is at in its loop
CandidateHash(w) ==
    hash_element(DocOf(workers[w]),
                 workers[w].significant_elements[workers[w].k])

\* after Join: every unit has returned and extract() goes on alone
Joined == pc \in {"save", "save_groups", "summary", "finally", "returned"}

\* the fragments scanned for a unit, in the order process_file scans them
FragmentsOf(unit) ==
    LET f == FileCatalogue[tree[futures[unit].file]]
    IN  IF f.ext = "php"
        THEN IF execute_php /\ f.run = "ok" THEN <<"static", "execution">>
             ELSE <<"static">>
        ELSE <<"html">>

\* the candidates of a fragment, in the order of its loop
CandidatesOf(unit, mode) ==
    LET sig == significant(FragmentDoc(unit, mode))
    IN  [k \in 1..Len(sig) |-> <<unit, mode, sig[k]>>]

RECURSIVE Flatten(_)
Flatten(ss) == IF ss = <<>> THEN <<>> ELSE Head(ss) \o Flatten(Tail(ss))

\* every candidate of the run: unit by unit in submission order, fragment by
\* fragment, in loop order
AllCandidates ==
    Flatten([u \in 1..Len(futures) |->
                Flatten([m \in 1..Len(FragmentsOf(u)) |->
                            CandidatesOf(u, FragmentsOf(u)[m])])])

CandidateNode(c) == FragmentDoc(c[1], c[2])[c[3]]

CandidateFingerprint(c) == hash_element(FragmentDoc(c[1], c[2]), c[3])

\* the category lists when the candidates are taken one by one in that order
\* and the first of every fingerprint is kept
RECURSIVE FirstComeGroups(_, _, _, _)
FirstComeGroups(cands, k, seen, groups) ==
    IF k > Len(cands) THEN groups
    ELSE LET c == cands[k]
             d == FragmentDoc(c[1], c[2])
             h == CandidateFingerprint(c)
         IN  IF h \in seen THEN FirstComeGroups(cands, k + 1, seen, groups)
             ELSE FirstComeGroups(cands, k + 1, seen \cup {h},
                      groups_append(groups, classify_element(d, c[3]),
                          [element |-> clean_element(d, c[3]),
                           source_file |-> futures[c[1]].file,
                           origin |-> c]))

InOrderGroups == FirstComeGroups(AllCandidates, 1, {}, <<>>)

AllFingerprints ==
    {CandidateFingerprint(AllCandidates[k]) : k \in 1..Len(AllCandidates)}

\* the number of elements a category holds in the given lists
CountIn(groups, category) ==
    IF \E g \in 1..Len(groups) : groups[g].category = category
    THEN Len(groups[CHOOSE g \in 1..Len(groups) :
                        groups[g].category = category].elements)
    ELSE 0

\* ------------------------------------------------------------ C1
\* C1: the test "element_hash not in self.element_hashes" and the insertion of
\* the hash are one critical section under hash_lock: a thread that is about to
\* insert holds hash_lock and its hash is still absent from the index; and no
\* two accepted elements, in whatever category lists, have the same fingerprint.
C1_AtomicCheckAndInsert ==
    /\ \A w \in Threads :
          workers[w].pc = "insert" =>
              /\ hash_lock = w
              /\ CandidateHash(w) \notin element_hashes
    /\ \A a, b \in Accepted :
          FingerprintOf(EntryAt(a)) = FingerprintOf(EntryAt(b)) => a = b

\* two threads are at structurally identical candidates of different files: one
\* is about to insert, the other waits for hash_lock
C1_Witness ==
    \E w, v \in Threads :
        /\ workers[w].pc = "insert"
        /\ workers[v].pc = "loop"
        /\ futures[workers[w].unit].file # futures[workers[v].unit].file
        /\ CandidateHash(w) = CandidateHash(v)

\* ------------------------------------------------------------ C5
\* the rules of the classifier in their listed order: the n-th rule's condition
\* on the tag, the lower-cased joined class string and the subtree
Rule(n, d, i) ==
    LET tag == d[i].tag
        has(w) == str_contains(w, str_lower(str_join(s_space, d[i].class)))
        within(names) == \E j \in Descendants(d, i) : d[j].tag \in names
    IN  CASE n = 1 -> tag = s_button \/ has(s_btn) \/ has(s_button)
          [] n = 2 -> tag = s_form \/ within({s_form})
          [] n = 3 -> tag = s_header \/ has(s_header) \/ within({s_h1})
          [] n = 4 -> tag = s_nav \/ has(s_nav) \/ has(s_navbar) \/ has(s_menu)
          [] n = 5 -> tag = s_table \/ within({s_table})
          [] n = 6 -> \/ has(s_card)
                      \/ /\ tag = s_div
                         /\ within({s_img})
                         /\ Cardinality({j \in Descendants(d, i) : d[j].tag = s_div}) > 1
          [] n = 7 -> has(s_container) \/ has(s_wrapper)
          [] n = 8 -> has(s_grid) \/ has(s_row) \/ has(s_flex)
          [] n = 9 -> \/ tag \in {s_input, s_select, s_textarea}
                      \/ within({s_input, s_select, s_textarea})
          [] n = 10 -> tag = s_footer \/ has(s_footer)
          [] n = 11 -> tag = s_section \/ has(s_section)
          [] n = 12 -> tag = s_a \/ within({s_a})
          [] OTHER -> TRUE

RuleCategory == <<"buttons", "forms", "headers", "navbars", "tables", "cards",
                  "containers", "grids", "inputs", "footers", "sections", "links",
                  "other">>

FirstRule(d, i) ==
    CHOOSE n \in 1..Len(RuleCategory) :
        /\ Rule(n, d, i)
        /\ \A m \in 1..(n - 1) : ~Rule(m, d, i)

\* C5: classify_element returns, for every element, one category of the closed
\* set: the category of the first rule, in the listed order, that the element
\* matches.
C5_FirstMatchingRule ==
    (probe.fn = "classify_element" /\ probe.done) =>
        /\ probe.result[1] \in Categories
        /\ probe.result[1] = RuleCategory[FirstRule(probe.doc, 1)]

\* a nav that contains an h1 was classified: it is a header; the nav rule comes
\* later
C5_Witness ==
    /\ probe.fn = "classify_element"
    /\ probe.done
    /\ probe.doc[1].tag = s_nav
    /\ \E j \in Descendants(probe.doc, 1) : probe.doc[j].tag = s_h1
    /\ probe.result = <<"headers">>

Range(q) == {q[k] : k \in 1..Len(q)}

Occurrences(x, q) == Cardinality({k \in 1..Len(q) : q[k] = x})

\* the names of the direct children of a candidate
ChildTags(c) ==
    LET d == FragmentDoc(c[1], c[2])
    IN  [k \in 1..Len(Children(d, c[3])) |-> d[Children(d, c[3])[k]].tag]

\* equal tag, equal sets of class names and, for a container tag, equal sets of
\* direct-child tag names
SameSets(c, e) ==
    /\ CandidateNode(c).tag = CandidateNode(e).tag
    /\ Range(CandidateNode(c).class) = Range(CandidateNode(e).class)
    /\ CandidateNode(c).tag \in ContainerTags =>
          Range(ChildTags(c)) = Range(ChildTags(e))

\* the same, with every class name and every child tag name as many times in
\* the one as in the other
SameMultisets(c, e) ==
    /\ SameSets(c, e)
    /\ \A x \in Range(CandidateNode(c).class) :
          Occurrences(x, CandidateNode(c).class) = Occurrences(x, CandidateNode(e).class)
    /\ CandidateNode(c).tag \in ContainerTags =>
          \A x \in Range(ChildTags(c)) :
              Occurrences(x, ChildTags(c)) = Occurrences(x, ChildTags(e))

\* the accepted elements with the fingerprint h
AcceptedWith(h) == {a \in Accepted : FingerprintOf(EntryAt(a)) = h}

C3_FinalFingerprints ==
    Joined =>
        /\ element_hashes = AllFingerprints
        /\ {FingerprintOf(EntryAt(a)) : a \in Accepted} = AllFingerprints

\* two threads have run three candidates or more, with a duplicate among them
C3_Witness ==
    /\ Joined
    /\ max_threads = 2
    /\ Len(futures) = 2
    /\ Cardinality(element_hashes) >= 2
    /\ stats.duplicate_elements >= 1

\* ------------------------------------------------------------ C4
\* C4 as claimed: when the run has joined, every category holds as many elements
\* as it holds when the candidates are taken one by one in submission order,
\* which is what a run with one thread gives (C7): the number does not depend
\* on the threads or the schedule.
C4_CategoryCountsFixed ==
    Joined =>
        \A category \in Categories :
            CountIn(element_groups, category) = CountIn(InOrderGroups, category)

\* ------------------------------------------------------------ C7
\* the counters when the candidates are taken one by one
InOrderStats ==
    LET ran == {u \in 1..Len(futures) :
                   execute_php /\ FileCatalogue[tree[futures[u].file]].ext = "php"}
    IN  [files_scanned |-> Cardinality({p \in 1..Len(tree) : Visited(p)}),
         php_files_found |-> Len(php_files),
         html_files_found |-> Len(html_files),
         php_files_executed |->
             Cardinality({u \in ran : FileCatalogue[tree[futures[u].file]].run = "ok"}),
         execution_errors |->
             Cardinality({u \in ran : FileCatalogue[tree[futures[u].file]].run # "ok"}),
         elements_found |-> Len(AllCandidates),
         unique_elements |-> Cardinality(AllFingerprints),
         duplicate_elements |-> Len(AllCandidates) - Cardinality(AllFingerprints)]

\* C7: with one thread the units run one at a time in submission order (PHP
\* files in discovery order, then HTML files in discovery order); when the
\* run has joined the category lists are those of taking the candidates one by
\* one in that order and keeping the first of every fingerprint, the counters
\* are a function of the input, and the report holds these counters and lists.
C7_SingleThreadInOrder ==
    max_threads = 1 =>
        /\ \A u, v \in 1..Len(futures) :
              (u < v /\ futures[v].state # "pending") => futures[u].state = "done"
        /\ pc # "start" =>
              /\ \A u \in 1..Len(futures) :
                    futures[u].file = (php_files \o html_files)[u]
              /\ \A k, n \in 1..Len(php_files) : k < n => php_files[k] < php_files[n]
              /\ \A k, n \in 1..Len(html_files) : k < n => html_files[k] < html_files[n]
        /\ Joined =>
              /\ element_groups = InOrderGroups
              /\ stats = InOrderStats
        /\ report.written =>
              /\ report.stats = InOrderStats
              /\ report.groups = InOrderGroups

\* one thread has run two files that hold candidates of one fingerprint, and the
\* report is written
C7_Witness ==
    /\ max_threads = 1
    /\ report.written
    /\ Len(futures) = 2
    /\ stats.duplicate_elements >= 1
    /\ Len(element_groups) >= 1
    /\ \E k, n \in 1..Len(AllCandidates) :
          /\ AllCandidates[k][1] # AllCandidates[n][1]
          /\ CandidateFingerprint(AllCandidates[k]) = CandidateFingerprint(AllCandidates[n])

\* ------------------------------------------------------------ C8
\* C8: once every file is submitted the futures are the discovered files, PHP
\* files first, each once; and from the moment save_unique_elements starts,
\* every unit has returned, no thread of the pool runs or holds a lock.
C8_ReportAfterJoin ==
    /\ pc \notin {"start", "submit"} =>
          [u \in 1..Len(futures) |-> futures[u].file] = php_files \o html_files
    /\ Joined =>
          /\ \A u \in 1..Len(futures) : futures[u].state = "done"
          /\ \A w \in Threads : workers[w] = IdleWorker
          /\ stats_lock = 0 /\ hash_lock = 0 /\ print_lock = 0

\* the report is being written after two threads ran two units
C8_Witness ==
    /\ pc = "save_groups"
    /\ max_threads = 2
    /\ Len(futures) = 2
    /\ stats.unique_elements >= 2

\* ------------------------------------------------------------ C9
\* C9 as claimed: when extract() has returned, cleanup() has run once and the
\* temporary directory allocated at construction no longer exists.
C9_DirectoryGoneAfterReturn ==
    pc = "returned" => (cleanups = 1 /\ temp_dir # "exists")

\* C9: once extract() has started it eventually returns, on every path (units
\* that failed, a submission that failed, a report that could not be written);
\* cleanup() has run exactly once when it has returned and not at all before;
\* and extract() returns with the temporary directory still there only by a
\* step in which its removal raised.
C9_CleanupOnceAtEnd ==
    /\ [](cleanups = (IF pc = "returned" THEN 1 ELSE 0))
    /\ [][(pc' = "returned" /\ temp_dir' = "exists") => raised' = raised + 1]_vars
    /\ (pc = "start") ~> (pc = "returned")

\* extract() has returned after the report could not be written: the summary
\* was printed, cleanup() ran once and removed the directory
C9_Witness ==
    /\ pc = "returned"
    /\ raised = 1
    /\ ~report.written
    /\ summary.printed
    /\ cleanups = 1
    /\ temp_dir = "removed"

\* ------------------------------------------------------------ C10
\* C10 as claimed: a unit that failed holds no lock afterwards, and while no
\* thread is inside the critical section every fingerprint of the index belongs
\* to an accepted element.
C10_FailureLeavesNoTrace ==
    /\ \A w \in Threads :
          workers[w].after = "failed" => (hash_lock # w /\ stats_lock # w)
    /\ hash_lock = 0 => \A h \in element_hashes : AcceptedWith(h) # {}

\* ------------------------------------------------------------ C11
\* the run has one unit, an HTML file whose markup is k >= 1 copies of one
\* childless element with a Tailwind-like class
RepeatedElementRun ==
    /\ Len(futures) = 1
    /\ FragmentsOf(1) = <<"html">>
    /\ LET d == FragmentDoc(1, "html")
       IN  /\ d # <<>>
           /\ \A i \in 1..Len(d) : d[i] = d[1] /\ d[i].parent = 0
           /\ tailwind_search(str_join(s_space, d[1].class))

\* C11: when such a run has joined, one element is accepted, in the category
\* the rules give for it, k - 1 duplicates are counted and elements_found is k.
C11_RepeatedElementAcceptedOnce ==
    (Joined /\ RepeatedElementRun) =>
        LET d == FragmentDoc(1, "html")
        IN  /\ Len(element_groups) = 1
            /\ element_groups[1].category = RuleCategory[FirstRule(d, 1)]
            /\ Len(element_groups[1].elements) = 1
            /\ stats.unique_elements = 1
            /\ stats.duplicate_elements = Len(d) - 1
            /\ stats.elements_found = Len(d)

\* the file with the button "btn bg-blue-500" twice was run: one element in
\* "buttons", one duplicate
C11_Witness ==
    /\ Joined
    /\ RepeatedElementRun
    /\ Len(FragmentDoc(1, "html")) = 2
    /\ FragmentDoc(1, "html")[1].class = <<s_btn, s_bg_blue_500>>
    /\ element_groups[1].category = "buttons"
    /\ stats.duplicate_elements = 1
    /\ stats.elements_found = 2

\* ------------------------------------------------------------ C12
\* C12: while PHP execution is disabled, php_files_executed and
\* execution_errors are 0, no thread is running a PHP file, is scanning the
\* output of one, or is about to count an execution.
C12_NoExecutionWhenDisabled ==
    ~execute_php =>
        /\ stats.php_files_executed = 0
        /\ stats.execution_errors = 0
        /\ \A w \in Threads :
              /\ workers[w].pc # "execute"
              /\ workers[w].mode # "execution"
              /\ workers[w].counter \notin {"php_files_executed", "execution_errors"}

\* two PHP files were processed by two threads with execution disabled
C12_Witness ==
    /\ ~execute_php
    /\ Joined
    /\ max_threads = 2
    /\ Len(php_files) = 2
    /\ stats.php_files_found = 2
    /\ stats.elements_found >= 1

\* ------------------------------------------------------------ C13
\* execution was asked for (the temporary directory was made) and the version
\* probe failed
FellBack == ~execute_php /\ temp_dir # "None"

\* C13: after such a construction the run is an ordinary run with execution
\* disabled: php_files_executed and execution_errors stay 0, every unit is
\* processed, and the temporary directory exists until cleanup() removes it at
\* the end of extract().
C13_ProbeFailureFallsBack ==
    FellBack =>
        /\ stats.php_files_executed = 0
        /\ stats.execution_errors = 0
        /\ \A w \in Threads : workers[w].mode \in {"none", "static", "html"}
        /\ Joined => \A u \in 1..Len(futures) : futures[u].state = "done"
        /\ temp_dir = (IF pc = "returned" THEN "removed" ELSE "exists")

\* a run after a failed probe has returned: a PHP file was analysed statically
\* and gave an element, and the directory is removed
C13_Witness ==
    /\ FellBack
    /\ pc = "returned"
    /\ temp_dir = "removed"
    /\ stats.php_files_found >= 1
    /\ \E a \in Accepted : EntryAt(a).origin[2] = "static"

\* ------------------------------------------------------------ C14
\* the file at position p is over 5 MiB, is hidden, or its size cannot be read
Excluded(p) ==
    LET f == FileCatalogue[tree[p]]
    IN  f.size > 5 * 1024 * 1024 \/ f.hidden \/ ~f.stat_ok

\* C14: after discovery no excluded file is in either list and none was
\* counted; every other file of the tree was counted once in files_scanned,
\* whatever its extension; the PHP files and the HTML files among them are the
\* two lists, each file once and counted once; so files_scanned is at least
\* php_files_found + html_files_found.
C14_DiscoveryCounts ==
    pc # "start" =>
        LET kept == {p \in 1..Len(tree) : ~Excluded(p)}
            php  == {p \in kept : FileCatalogue[tree[p]].ext = "php"}
            html == {p \in kept : FileCatalogue[tree[p]].ext = "html"}
        IN  /\ Range(php_files) = php
            /\ Range(html_files) = html
            /\ Len(php_files) = Cardinality(php)
            /\ Len(html_files) = Cardinality(html)
            /\ stats.files_scanned = Cardinality(kept)
            /\ stats.php_files_found = Cardinality(php)
            /\ stats.html_files_found = Cardinality(html)
            /\ stats.files_scanned >= stats.php_files_found + stats.html_files_found

\* a tree of a file of exactly 5 MiB and an excluded file was walked: the
\* first was counted and listed, the second was not
C14_Witness ==
    /\ pc = "submit"
    /\ \E p, q \in 1..Len(tree) :
          /\ FileCatalogue[tree[p]].size = 5 * 1024 * 1024
          /\ Excluded(q)
          /\ html_files = <<p>>
    /\ stats.files_scanned = 1
    /\ stats.html_files_found = 1

\* ------------------------------------------------------------ C15
\* the step accepts the element e into the last place of the list of an old
\* category, the other lists and the order of the categories staying
AcceptedIntoOld(e) ==
    /\ Len(element_groups') = Len(element_groups)
    /\ \E g \in 1..Len(element_groups) :
          /\ element_groups'[g] =
                [element_groups[g] EXCEPT !.elements = Append(@, e)]
          /\ \A h \in 1..Len(element_groups) :
                h # g => element_groups'[h] = element_groups[h]

\* the step accepts e as the only element of a new category, which comes after
\* the categories there are
AcceptedIntoNew(e) ==
    /\ element_groups' =
          Append(element_groups,
                 [category |-> element_groups'[Len(element_groups')].category,
                  elements |-> <<e>>])
    /\ \A g \in 1..Len(element_groups) :
          element_groups[g].category # element_groups'[Len(element_groups')].category

\* the element the step accepts: the last of a list that grew or is new
AcceptedByStep ==
    LET g == CHOOSE g \in 1..Len(element_groups') :
                 \/ g > Len(element_groups)
                 \/ element_groups'[g] # element_groups[g]
        list == element_groups'[g].elements
    IN  list[Len(list)]

\* C15: the category lists and the index change only together, by a step that
\* accepts one element: its fingerprint enters the index and it becomes the
\* last element of its category, a category that had no element becoming the
\* last category; no category is ever without elements; and the report, once
\* written, holds the categories and their elements in exactly this order.
C15_ReportInAcceptanceOrder ==
    /\ [](/\ \A g \in 1..Len(element_groups) : element_groups[g].elements # <<>>
          /\ report.written => report.groups = element_groups)
    /\ [][(element_groups' # element_groups \/ element_hashes' # element_hashes) =>
             /\ element_groups' # element_groups
             /\ AcceptedIntoOld(AcceptedByStep) \/ AcceptedIntoNew(AcceptedByStep)
             /\ FingerprintOf(AcceptedByStep) \notin element_hashes
             /\ element_hashes' = element_hashes \cup {FingerprintOf(AcceptedByStep)}
         ]_vars

\* the report is written with two categories, one of them with two elements
C15_Witness ==
    /\ report.written
    /\ Len(report.groups) = 2
    /\ \E g \in 1..2 : Len(report.groups[g].elements) = 2

\* ------------------------------------------------------------ C16
ComponentNames == {s_button, s_card, s_nav, s_header, s_footer, s_form}

\* the class value of the element, lower-cased, contains the text c
ClassHolds(c, node) == str_contains(c, str_lower(str_join(s_space, node.class)))

\* the element is one the second pass looks at for some component name and its
\* class value holds that name
MatchesByClass(node) ==
    \E c \in ComponentNames :
        /\ node.tag \in {c, s_div, s_section}
        /\ ClassHolds(c, node)

\* C16 as claimed: after the two passes every element whose tag is a component
\* name is a candidate, and so is every div or section whose class value holds
\* a component name.
C16_SelectedByTagName ==
    (probe.fn = "significant_elements" /\ probe.done) =>
        \A j \in 1..Len(probe.doc) :
            (\/ probe.doc[j].tag \in ComponentNames
             \/ (probe.doc[j].tag \in {s_div, s_section}
                    /\ \E c \in ComponentNames : ClassHolds(c, probe.doc[j])))
                => j \in Range(probe.result[1])

\* C16: the second pass selects by the class value alone, for every tag it
\* looks at: an element that matches by class is a candidate unless it, or an
\* element equal to it, was selected before; every candidate matches by class
\* or has a Tailwind-like class; and an element with no class attribute is
\* never a candidate, whatever its tag.
C16_SelectedByClassOnly ==
    (probe.fn = "significant_elements" /\ probe.done) =>
        LET d == probe.doc
            chosen == Range(probe.result[1])
        IN  /\ \A j \in 1..Len(d) :
                  MatchesByClass(d[j]) => \E k \in chosen : TagEq(d, k, j)
            /\ \A j \in chosen :
                  \/ MatchesByClass(d[j])
                  \/ tailwind_search(str_join(s_space, d[j].class))
            /\ \A j \in 1..Len(d) : d[j].class = <<>> => j \notin chosen

\* a nav with no class and a div with the class "Card" were scanned: the div
\* alone is a candidate
C16_Witness ==
    /\ probe.fn = "significant_elements"
    /\ probe.done
    /\ Len(probe.doc) = 2
    /\ probe.doc[1].tag = s_nav /\ probe.doc[1].class = <<>>
    /\ probe.doc[2].tag = s_div /\ probe.doc[2].class = <<s_Card>>
    /\ probe.result[1] = <<2>>

\* ------------------------------------------------------------ C18
\* C18 as claimed: the candidate list holds no element twice, and of two
\* distinct elements that are equal in name, attributes and contents and match
\* the second pass by their class, both are candidates.
C18_SelectedByIdentity ==
    (probe.fn = "significant_elements" /\ probe.done) =>
        LET d == probe.doc
            list == probe.result[1]
        IN  /\ \A a, b \in 1..Len(list) : list[a] = list[b] => a = b
            /\ \A i, j \in 1..Len(d) :
                  (i # j /\ TagEq(d, i, j) /\ MatchesByClass(d[i])) =>
                      (i \in Range(list) /\ j \in Range(list))

\* ------------------------------------------------------------ C17
\* the units of PHP files whose execution ends with exit status 0, and of those
\* whose execution fails (file missing, other exit status, timeout)
RanWell == {u \in 1..Len(futures) :
               /\ FileCatalogue[tree[futures[u].file]].ext = "php"
               /\ FileCatalogue[tree[futures[u].file]].run = "ok"}

RanBadly == {u \in 1..Len(futures) :
                /\ FileCatalogue[tree[futures[u].file]].ext = "php"
                /\ FileCatalogue[tree[futures[u].file]].run
                      \in {"missing", "nonzero", "timeout"}}

\* C17: with execution enabled the two counters never exceed the PHP files
\* whose execution ended one way or the other; when the run has joined, every
\* unit has returned, php_files_executed is the number of PHP files that ran
\* with exit status 0, execution_errors the number of those that failed, and
\* their sum is php_files_found.
C17_OneCountPerExecution ==
    execute_php =>
        /\ stats.php_files_executed <= Cardinality(RanWell)
        /\ stats.execution_errors <= Cardinality(RanBadly)
        /\ Joined =>
              /\ \A u \in 1..Len(futures) : futures[u].state = "done"
              /\ stats.php_files_executed = Cardinality(RanWell)
              /\ stats.execution_errors = Cardinality(RanBadly)
              /\ stats.php_files_executed + stats.execution_errors
                    = stats.php_files_found

\* two threads ran a PHP file that exits with 0 and one that times out; the run
\* joined and the report is written
C17_Witness ==
    /\ execute_php
    /\ max_threads = 2
    /\ report.written
    /\ stats.php_files_executed = 1
    /\ stats.execution_errors = 1
    /\ \E u \in RanBadly : FileCatalogue[tree[futures[u].file]].run = "timeout"

\* ------------------------------------------------------------ C19
\* a step of the main thread's discovery walk, before any worker exists: the
\* three discovery counters grow, the others are untouched
DiscoveryIncrement ==
    /\ pc = "start"
    /\ stats_lock = 0
    /\ futures = <<>>
    /\ \A c \in DOMAIN stats : stats'[c] >= stats[c]
    /\ \A c \in DOMAIN stats \ {"files_scanned", "php_files_found", "html_files_found"} :
          stats'[c] = stats[c]

\* a step of worker w that adds its amount to the current value of one counter
\* while it holds stats_lock
LockedIncrement(w) ==
    /\ stats_lock = w
    /\ workers[w].pc = "stats_write"
    /\ workers[w].amount >= 0
    /\ stats' = [stats EXCEPT ![workers[w].counter] = @ + workers[w].amount]

\* C19: the counters change only by an increment of the current value made under
\* stats_lock (by the discovery walk before the pool exists, or by the worker
\* that holds the lock); when the run has joined every counter is the number of
\* increments the input calls for, whatever the interleaving; the report and
\* the summary take the counters only after every unit has returned.
C19_CountersLockedAndComplete ==
    /\ [][stats' # stats =>
            (DiscoveryIncrement \/ \E w \in Threads : LockedIncrement(w))]_vars
    /\ [](Joined => (stats_lock = 0 /\ stats = InOrderStats))
    /\ [][(report' # report \/ summary' # summary) =>
            /\ Joined
            /\ \A u \in 1..Len(futures) : futures[u].state = "done"
            /\ \A w \in Threads : workers[w].pc = "idle"
            /\ stats' = stats]_vars
    /\ [](report.written => report.stats = stats)
    /\ [](summary.printed => summary.stats = stats)

\* one thread holds stats_lock between reading and writing a counter while the
\* other thread waits to increment the same counter
C19_Witness ==
    \E w, v \in Threads :
        /\ w # v
        /\ stats_lock = w
        /\ workers[w].pc = "stats_write"
        /\ workers[v].pc = "stats_acquire"
        /\ workers[v].counter = workers[w].counter
        /\ workers[w].amount > 0
        /\ workers[v].amount > 0

\* ------------------------------------------------------------ C20
\* the fingerprints of the candidates of the static fragment of a unit
StaticHashes(unit) ==
    LET d == parsed[tree[futures[unit].file]].static
    IN  {hashes[d][i] : i \in Range(selected[d])}

\* the thread is past the static scan of its PHP file: it runs the file, counts
\* the outcome, or scans what the execution printed
PastStaticScan(l) ==
    \/ l.pc = "execute"
    \/ l.after \in {"executed", "execution_error", "no_output"}
    \/ l.mode = "execution"

\* thread w is at a candidate of the execution fragment whose fingerprint a
\* candidate of the static fragment of the same file has
AtRepeatOfStatic(w) ==
    /\ workers[w].mode = "execution"
    /\ workers[w].pc = "loop"
    /\ hashes[DocOf(workers[w])][workers[w].significant_elements[workers[w].k]]
          \in StaticHashes(workers[w].unit)

\* C20: a thread runs a PHP file, and scans what it printed, only when
\* execution is enabled and after every candidate of the static fragment of
\* that file went through the shared index; no accepted element comes from an
\* execution-mode candidate whose fingerprint a static candidate of the same
\* file has, and no fingerprint is accepted twice; such a candidate is counted
\* as one duplicate and stores nothing, and it is part of the number its
\* fragment adds to elements_found; after the join elements_found is the number
\* of candidates of all fragments and duplicate_elements those not accepted.
C20_StaticBeforeExecutionOneIndex ==
    /\ [](\A w \in Threads :
            PastStaticScan(workers[w]) =>
               /\ execute_php
               /\ FileCatalogue[tree[futures[workers[w].unit].file]].ext = "php"
               /\ StaticHashes(workers[w].unit) \subseteq element_hashes
               /\ workers[w].elements_from_static
                     = Len(selected[parsed[tree[futures[workers[w].unit].file]].static]))
    /\ [](\A a \in Accepted :
            EntryAt(a).origin[2] = "execution" =>
               FingerprintOf(EntryAt(a)) \notin StaticHashes(EntryAt(a).origin[1]))
    /\ [](\A a, b \in Accepted :
            FingerprintOf(EntryAt(a)) = FingerprintOf(EntryAt(b)) => a = b)
    /\ [][\A w \in Threads :
            (AtRepeatOfStatic(w) /\ workers'[w] # workers[w]) =>
               /\ workers'[w].pc = "stats_acquire"
               /\ workers'[w].counter = "duplicate_elements"
               /\ workers'[w].amount = 1
               /\ element_groups' = element_groups
               /\ element_hashes' = element_hashes]_vars
    /\ [][\A w \in Threads :
            (workers'[w].counter = "elements_found"
               /\ workers[w].counter # "elements_found") =>
               workers'[w].amount = Len(selected[DocOf(workers'[w])])]_vars
    /\ [](Joined =>
            /\ stats.elements_found = Len(AllCandidates)
            /\ stats.duplicate_elements
                  = Len(AllCandidates) - Cardinality(element_hashes))

\* a thread scanning what a PHP file printed has met a candidate whose
\* fingerprint the static fragment of the same file had, whose static occurrence
\* is the accepted one, and is counting it as a duplicate
C20_Witness ==
    \E w \in Threads :
        /\ workers[w].mode = "execution"
        /\ workers[w].pc = "stats_acquire"
        /\ workers[w].counter = "duplicate_elements"
        /\ CandidateHash(w) \in StaticHashes(workers[w].unit)
        /\ \E a \in Accepted :
              /\ EntryAt(a).origin[1] = workers[w].unit
              /\ EntryAt(a).origin[2] = "static"
              /\ FingerprintOf(EntryAt(a)) = CandidateHash(w)

\* ------------------------------------------------------------ C21
\* thread w takes a lock in this step
TakesHashLock(w) == hash_lock' = w /\ hash_lock # w

TakesStatsLock(w) == stats_lock' = w /\ stats_lock # w

TakesPrintLock(w) == print_lock' = w /\ print_lock # w

\* C21: a thread that holds stats_lock or print_lock holds it alone of the two,
\* waits for no lock and releases it in its next step; a thread that holds
\* hash_lock stores the element, counts it or releases the lock; hash_lock and
\* print_lock are taken only by a thread that holds no lock, and stats_lock
\* only by a thread that holds at most hash_lock. Under a fair scheduler every
\* submitted unit returns and the report is written, for every number of
\* threads and every interleaving.
C21_LockOrderAndTermination ==
    /\ [](\A w \in Threads :
            /\ stats_lock = w =>
                  (workers[w].pc = "stats_write" /\ print_lock # w)
            /\ print_lock = w =>
                  (workers[w].pc = "print_release" /\ hash_lock # w /\ stats_lock # w)
            /\ hash_lock = w =>
                  workers[w].pc \in {"insert", "stats_acquire", "stats_write",
                                     "hash_release"})
    /\ [][\A w \in Threads :
            /\ TakesHashLock(w) => (stats_lock # w /\ print_lock # w)
            /\ TakesPrintLock(w) => (hash_lock # w /\ stats_lock # w)
            /\ TakesStatsLock(w) => print_lock # w]_vars
    /\ \A u \in 1..MaxFiles :
          (u <= Len(futures)) ~> (u <= Len(futures) /\ futures[u].state = "done")
    /\ (pc = "start") ~> report.written

\* one thread waits for stats_lock inside "with self.hash_lock:" while the
\* other thread holds stats_lock
C21_Witness ==
    \E w, v \in Threads :
        /\ w # v
        /\ hash_lock = w
        /\ workers[w].pc = "stats_acquire"
        /\ stats_lock = v
        /\ workers[v].pc = "stats_write"

\* ------------------------------------------------------------ C22
\* C22: elements_found never exceeds unique_elements + duplicate_elements (it
\* is added per fragment, after the fragment's candidates were counted), and
\* when the run has joined the two are equal.
C22_FoundIsUniquePlusDuplicate ==
    /\ stats.elements_found <= stats.unique_elements + stats.duplicate_elements
    /\ Joined =>
          stats.elements_found = stats.unique_elements + stats.duplicate_elements

\* ------------------------------------------------------------ C23
\* the accepted elements whose candidate has fingerprint h
AcceptedFor(h) == {a \in Accepted : FingerprintOf(EntryAt(a)) = h}

\* the category lists after the step hold the ones before it: the keys keep
\* their places and every list keeps its elements as a prefix
GroupsGrow ==
    /\ Len(element_groups') >= Len(element_groups)
    /\ \A g \in 1..Len(element_groups) :
          /\ element_groups'[g].category = element_groups[g].category
          /\ Len(element_groups'[g].elements) >= Len(element_groups[g].elements)
          /\ \A n \in 1..Len(element_groups[g].elements) :
                element_groups'[g].elements[n] = element_groups[g].elements[n]

\* C23: whenever hash_lock is free, element_hashes has as many fingerprints as
\* unique_elements counts and as the category lists hold elements, and every
\* fingerprint of element_hashes is that of exactly one accepted element (in
\* one category); element_hashes and the category lists only grow.
C23_IndexMatchesAccepted ==
    /\ [](hash_lock = 0 =>
            /\ Cardinality(element_hashes) = stats.unique_elements
            /\ Cardinality(element_hashes) = Cardinality(Accepted)
            /\ \A h \in element_hashes : Cardinality(AcceptedFor(h)) = 1
            /\ \A a \in Accepted : FingerprintOf(EntryAt(a)) \in element_hashes)
    /\ [][element_hashes \subseteq element_hashes' /\ GroupsGrow]_vars

====
